---- MODULE Spec2Model ----
(***************************************************************************)
(* Model of the social-network service: the property graph kept in Neo4j  *)
(* (User nodes, HAS_SKILL / WORKS_AT / KNOWS relationships), the scripts   *)
(* and the endpoint that write it, and the three recommendation queries   *)
(* of RecommendationService, translated clause by clause from their       *)
(* Cypher text, the global driver of database/connection.py, and the      *)
(* recommendation and shortest-path endpoints served step by step; the    *)
(* Neo4jConnection object of the scripts, POST /users statement by        *)
(* statement, and the natural-language query of LLMQueryService.          *)
(*                                                                         *)
(* Conventions.                                                            *)
(*  - A user node is identified with its user_id, a Skill or Company node *)
(*    with its name (both are created by MERGE on that key, and user_id   *)
(*    is a fresh UUID), all written as small positive integers.           *)
(*  - KNOWS is created only by an undirected MERGE between two different  *)
(*    users and every query reads it with an undirected pattern, so a     *)
(*    KNOWS relationship is the two-element set of its end points.        *)
(*  - An Optional value is a sequence of length 0 (null) or 1.            *)
(*  - Friend and people scores are Cypher floats with two decimals of     *)
(*    weight; they are kept exactly, in hundredths (100 is 1.0), without  *)
(*    the rounding of IEEE-754 arithmetic.  A job match rate is the exact *)
(*    fraction [num, den].                                                *)
(*  - The rows of a query reach ORDER BY in an order the database         *)
(*    chooses; the model takes every such order and sorts it stably.      *)
(***************************************************************************)
EXTENDS Integers, Sequences, FiniteSets, TLC

\* ------------------------------------------------------------------ bounds
MaxUsers == 3
MaxSkills == 2
MaxCompanies == 2
MaxLimit == 2
MaxCalls == 2
MaxDrivers == 3

UserIds == 1..MaxUsers
SkillNames == 1..MaxSkills
CompanyNames == 1..MaxCompanies
Limits == 1..MaxLimit

\* ------------------------------------------------------------------ state
VARIABLES
    users,      \* the user_id of every User node (user_service.py CREATE (u:User ...))
    hasSkill,   \* HAS_SKILL relationships, <<user_id, skill name>>
                \* (user_service.py MERGE (u)-[:HAS_SKILL]->(s))
    worksAt,    \* WORKS_AT: user_id -> Optional company name; a user gets at most
                \* one (user_service.py MERGE (u)-[:WORKS_AT]->(c); seed_data.py
                \* WHERE NOT (u)-[:WORKS_AT]->())
    knows,      \* KNOWS relationships, {user_id, user_id}
                \* (seed_data.py MERGE (u1)-[:KNOWS]-(u2))
    resp,       \* the response of the most recent operation: what the endpoint
                \* returned (routers/recommendations.py), none after a script step
    _driver,    \* the global driver handle, an Optional driver
                \* (database/connection.py _driver: Optional[Driver] = None)
    drivers,    \* the drivers GraphDatabase.driver has created, in order of
                \* creation, each "open" or "closed" (Driver.close())
    service_driver,
                \* self.driver of the module-level services, captured when the
                \* routers are imported (RecommendationService.__init__)
    calls,      \* the requests being served, one record per slot: the handler's
                \* position and locals (routers/recommendations.py, routers/paths.py,
                \* routers/users.py)
    connection  \* one Neo4jConnection object of a script: its _driver handle, the
                \* drivers it has created, each "open" or "closed", and how many
                \* with-blocks on it are entered (database/connection.py)

vars == <<users, hasSkill, worksAt, knows, resp, _driver, drivers, service_driver, calls,
          connection>>

\* the property graph, and the process state around it
graph == <<users, hasSkill, worksAt, knows>>
process == <<_driver, drivers, service_driver, calls, connection>>

Null == <<>>
Some(x) == <<x>>

NoResp == [op |-> "none", user |-> 0, limit |-> 0, rows |-> <<>>]

\* ------------------------------------------------------------------ helpers
Min(a, b) == IF a < b THEN a ELSE b

\* The first k elements of a sequence: Cypher's LIMIT k.
Take(seq, k) == SubSeq(seq, 1, Min(k, Len(seq)))

\* Every order in which the database may hand over the rows of a set.
ArrivalOrders(S) ==
    {f \in [1..Cardinality(S) -> S] : \A i, j \in DOMAIN f : i # j => f[i] # f[j]}

\* ORDER BY: a stable sort of the rows in arrival order, before[<<a, b>>]
\* telling whether row a sorts before row b.  Row i goes after every row that
\* sorts before it and after the earlier rows that tie with it.
OrderBy(seq, before) ==
    LET Rank(i) ==
            Cardinality({j \in DOMAIN seq : before[<<seq[j], seq[i]>>]})
            + Cardinality({j \in DOMAIN seq :
                  j < i /\ ~before[<<seq[j], seq[i]>>] /\ ~before[<<seq[i], seq[j]>>]})
            + 1
    IN  IF seq = <<>> THEN <<>>
        ELSE [p \in DOMAIN seq |-> seq[CHOOSE i \in DOMAIN seq : Rank(i) = p]]

\* (a)-[:KNOWS]-(b)
Knows(a, b) == {a, b} \in knows

\* the users matched by (u)-[:KNOWS]-(x)
Neighbors(u) == {v \in users : Knows(u, v)}

\* the skill names matched by (u)-[:HAS_SKILL]->(s)
SkillsOf(u) == {h[2] : h \in {x \in hasSkill : x[1] = u}}

\* ------------------------------------------------------------------ scores
\* mutual_count * 0.6 / 10.0 and SIZE(common_skills) * 0.4 / 10.0, in hundredths
FriendMutualWeight == 6
FriendSkillWeight == 4
\* mutual_count * 0.5 / 10.0, common_skill_count * 0.3 / 10.0 and 2 / 10.0, in hundredths
PeopleMutualWeight == 5
PeopleSkillWeight == 3
SameCompanyBonus == 20
\* the float 1.0, in hundredths
One == 100

\* ClampScore without the cap.
ClampScoreUncapped(score) == score

\* CASE WHEN score > 1.0 THEN 1.0 ELSE score END
ClampScore(score) == IF score > One THEN One ELSE score

\* FriendScore with the two weights exchanged.
FriendScoreSwapped(mutual_count, skill_count) ==
    mutual_count * FriendSkillWeight + skill_count * FriendMutualWeight

\* (mutual_count * 0.6 + SIZE(common_skills) * 0.4) / 10.0
FriendScore(mutual_count, skill_count) ==
    mutual_count * FriendMutualWeight + skill_count * FriendSkillWeight

\* FriendReason with the two tests in the other order.
FriendReasonSkillsFirst(mutual_count, skill_count) ==
    IF skill_count > 3 THEN "Similar skills"
    ELSE IF mutual_count > 5 THEN "Many mutual connections"
    ELSE "Mutual connections"

\* CASE WHEN mutual_count > 5 ... WHEN SIZE(common_skills) > 3 ... ELSE ... END
FriendReason(mutual_count, skill_count) ==
    IF mutual_count > 5 THEN "Many mutual connections"
    ELSE IF skill_count > 3 THEN "Similar skills"
    ELSE "Mutual connections"

\* PeopleScore with the same-company bonus left out of the sum.
PeopleScoreNoBonus(mutual_count, common_skill_count, same_company) ==
    mutual_count * PeopleMutualWeight + common_skill_count * PeopleSkillWeight

\* (mutual_count * 0.5 + common_skill_count * 0.3
\*   + CASE WHEN same_company THEN 2 ELSE 0 END) / 10.0
PeopleScore(mutual_count, common_skill_count, same_company) ==
    mutual_count * PeopleMutualWeight + common_skill_count * PeopleSkillWeight
        + (IF same_company THEN SameCompanyBonus ELSE 0)


\* FriendMatches without NOT (u)-[:KNOWS]-(recommendation).
FriendMatchesKeepConnected(user_id) ==
    IF user_id \notin users THEN {}
    ELSE UNION {{<<friend, recommendation>> :
                    recommendation \in {r \in Neighbors(friend) :
                        /\ {user_id, friend} # {friend, r}
                        /\ user_id # r}} :
                friend \in Neighbors(user_id)}

\* ------------------------------------------------------------------ friends
\* MATCH (u:User {user_id: $user_id})-[:KNOWS]-(friend)-[:KNOWS]-(recommendation:User)
\* WHERE u <> recommendation AND NOT (u)-[:KNOWS]-(recommendation)
\* The rows <<friend, recommendation>>; the two relationships of one pattern
\* are different relationships.
FriendMatches(user_id) ==
    IF user_id \notin users THEN {}
    ELSE UNION {{<<friend, recommendation>> :
                    recommendation \in {r \in Neighbors(friend) :
                        /\ {user_id, friend} # {friend, r}
                        /\ user_id # r
                        /\ ~Knows(user_id, r)}} :
                friend \in Neighbors(user_id)}

\* OPTIONAL MATCH (u:User {user_id: $user_id})-[:HAS_SKILL]->(s:Skill)
\*                  <-[:HAS_SKILL]-(recommendation)
\* COLLECT(DISTINCT s.name)
FriendCommonSkills(user_id, recommendation) ==
    {h[2] : h \in {x \in hasSkill : x[1] = user_id /\ <<recommendation, x[2]>> \in hasSkill}}

\* One returned row: WITH recommendation, COUNT(DISTINCT friend) AS mutual_count ...
\* RETURN ...
FriendRow(user_id, matches, recommendation) ==
    LET mutual_count == Cardinality({m[1] : m \in {x \in matches : x[2] = recommendation}})
        common_skills == FriendCommonSkills(user_id, recommendation)
        score == FriendScore(mutual_count, Cardinality(common_skills))
    IN  [user_id |-> recommendation,
         mutual_connections |-> mutual_count,
         common_skills |-> common_skills,
         score |-> ClampScore(score),
         reason |-> FriendReason(mutual_count, Cardinality(common_skills))]

FriendRows(user_id) ==
    LET matches == FriendMatches(user_id)
    IN  {FriendRow(user_id, matches, rec) : rec \in {m[2] : m \in matches}}


\* FriendBefore without the mutual_count key.
FriendBeforeScoreOnly(a, b) == a.score > b.score

\* ORDER BY score DESC, mutual_count DESC: score is the returned (clamped)
\* column, which shadows the variable of the same name.
FriendBefore(a, b) ==
    \/ a.score > b.score
    \/ a.score = b.score /\ a.mutual_connections > b.mutual_connections

\* Every list RecommendationService.get_friend_recommendations may return.
FriendLists(user_id, limit) ==
    LET rows == FriendRows(user_id)
        before == [p \in rows \X rows |-> FriendBefore(p[1], p[2])]
    IN  {Take(OrderBy(o, before), limit) : o \in ArrivalOrders(rows)}

get_friend_recommendations(user_id, limit) ==
    /\ \E rows \in FriendLists(user_id, limit) :
          resp' = [op |-> "friends", user |-> user_id, limit |-> limit, rows |-> rows]
    /\ UNCHANGED <<users, hasSkill, worksAt, knows>>
    /\ UNCHANGED process

\* JobMatches without WHERE NOT (u)-[:WORKS_AT]->(c).
JobMatchesOwnEmployerToo(user_id) ==
    LET user_skills == SkillsOf(user_id)
        rows == {[other |-> h[1], s |-> h[2], c |-> worksAt[h[1]]] :
                    h \in {x \in hasSkill : x[1] \in users /\ worksAt[x[1]] # Null}}
    IN  {m \in rows :
            /\ user_id \in users
            /\ user_skills # {}
            /\ m.other # user_id
            /\ m.s \in user_skills}

\* JobMatches with the requester's skills matched optionally and the other
\* users' skills not held against them.
JobMatchesAnySkill(user_id) ==
    LET rows == {[other |-> h[1], s |-> h[2], c |-> worksAt[h[1]]] :
                    h \in {x \in hasSkill : x[1] \in users /\ worksAt[x[1]] # Null}}
    IN  {m \in rows :
            /\ user_id \in users
            /\ m.other # user_id
            /\ worksAt[user_id] # m.c}

\* JobMatches with every skill of the users who share a skill with the
\* requester, not only the skills the requester holds.
JobMatchesEverySkill(user_id) ==
    LET user_skills == SkillsOf(user_id)
        rows == {[other |-> h[1], s |-> h[2], c |-> worksAt[h[1]]] :
                    h \in {x \in hasSkill : x[1] \in users /\ worksAt[x[1]] # Null}}
    IN  {m \in rows :
            /\ user_id \in users
            /\ user_skills # {}
            /\ m.other # user_id
            /\ \E s \in user_skills : <<m.other, s>> \in hasSkill
            /\ worksAt[user_id] # m.c}

\* ------------------------------------------------------------------ jobs
\* MATCH (u:User {user_id: $user_id})-[:HAS_SKILL]->(skill:Skill)
\* WITH u, COLLECT(skill.name) AS user_skills
\* MATCH (other:User)-[:HAS_SKILL]->(s:Skill) WHERE other <> u AND s.name IN user_skills
\* MATCH (other)-[:WORKS_AT]->(c:Company) WHERE NOT (u)-[:WORKS_AT]->(c)
\* The rows [other, s, c], c the Optional holding the company's name; a
\* requester without a skill matches nothing.
JobMatches(user_id) ==
    LET user_skills == SkillsOf(user_id)
        rows == {[other |-> h[1], s |-> h[2], c |-> worksAt[h[1]]] :
                    h \in {x \in hasSkill : x[1] \in users /\ worksAt[x[1]] # Null}}
    IN  {m \in rows :
            /\ user_id \in users
            /\ user_skills # {}
            /\ m.other # user_id
            /\ m.s \in user_skills
            /\ worksAt[user_id] # m.c}

\* CASE WHEN total_skills > 0 THEN toFloat(matching_count) / total_skills ELSE 0.0 END
MatchRate(matching_count, total_skills) ==
    IF total_skills > 0 THEN [num |-> matching_count, den |-> total_skills]
    ELSE [num |-> 0, den |-> 1]

\* WHERE match_rate > 0.3
AboveThreshold(match_rate) == 10 * match_rate.num > 3 * match_rate.den

\* WITH c, user_skills, COLLECT(DISTINCT s.name) AS company_skills ... RETURN ...
JobRow(user_id, matches, c) ==
    LET user_skills == SkillsOf(user_id)
        company_skills == {m.s : m \in {x \in matches : x.c = c}}
        matching_skills == {skill \in company_skills : skill \in user_skills}
        match_rate == MatchRate(Cardinality(matching_skills), Cardinality(company_skills))
    IN  [job_id |-> <<"job_", c[1]>>,
         title |-> <<"Position at ", c[1]>>,
         company |-> c[1],
         required_skills |-> company_skills,
         matching_skills |-> matching_skills,
         skill_match_rate |-> match_rate,
         score |-> match_rate]

\* JobRows over the matches of JobMatchesAnySkill, without the threshold.
JobRowsUnfiltered(user_id) ==
    LET matches == JobMatchesAnySkill(user_id)
    IN  {JobRow(user_id, matches, c) : c \in {m.c : m \in matches}}

JobRows(user_id) ==
    LET matches == JobMatches(user_id)
    IN  {r \in {JobRow(user_id, matches, c) : c \in {m.c : m \in matches}} :
            AboveThreshold(r.skill_match_rate)}

\* ORDER BY score DESC
JobBefore(a, b) == a.score.num * b.score.den > b.score.num * a.score.den

\* Every list RecommendationService.get_job_recommendations may return.
JobLists(user_id, limit) ==
    LET rows == JobRows(user_id)
        before == [p \in rows \X rows |-> JobBefore(p[1], p[2])]
    IN  {Take(OrderBy(o, before), limit) : o \in ArrivalOrders(rows)}

get_job_recommendations(user_id, limit) ==
    /\ \E rows \in JobLists(user_id, limit) :
          resp' = [op |-> "jobs", user |-> user_id, limit |-> limit, rows |-> rows]
    /\ UNCHANGED <<users, hasSkill, worksAt, knows>>
    /\ UNCHANGED process

\* ------------------------------------------------------------------ people
\* shortestPath((a)-[:KNOWS*]-(b)) for a # b: breadth-first search from a;
\* the length of a shortest path, or null when there is none.
\* ShortestPathLength that finds only the paths through one common neighbour.
ShortestPathLengthTwoHops(a, b) ==
    IF a = b THEN Some(0)
    ELSE IF Knows(a, b) THEN Some(1)
    ELSE IF Neighbors(a) \cap Neighbors(b) # {} THEN Some(2)
    ELSE Null

RECURSIVE Hops(_, _, _, _)
Hops(frontier, seen, target, d) ==
    IF target \in frontier THEN Some(d)
    ELSE LET next == (UNION {Neighbors(x) : x \in frontier}) \ seen
         IN  IF next = {} THEN Null ELSE Hops(next, seen \cup next, target, d + 1)

ShortestPathLength(a, b) == Hops({a}, {a}, b, 0)

\* CASE WHEN company IS NOT NULL AND suggestion_company = company THEN true ELSE false END
\* (a comparison with null is null, which WHERE and CASE take as false)
SameCompany(company, suggestion_company) ==
    company # Null /\ suggestion_company # Null /\ suggestion_company = company

\* PeopleCandidates without the friends of the requester's friends.
PeopleCandidatesBeyondFriends(user_id) ==
    LET friends == Neighbors(user_id)
    IN  {suggestion \in users :
            /\ user_id \in users
            /\ suggestion # user_id
            /\ suggestion \notin friends
            /\ Neighbors(suggestion) \cap friends = {}}

\* MATCH (suggestion:User) WHERE suggestion <> u AND NOT suggestion IN friends
\*   AND NOT (u)-[:KNOWS]-(suggestion)
PeopleCandidates(user_id) ==
    LET friends == Neighbors(user_id)
    IN  {suggestion \in users :
            /\ user_id \in users
            /\ suggestion # user_id
            /\ suggestion \notin friends
            /\ ~Knows(user_id, suggestion)}

\* One row per suggestion (a user has at most one WORKS_AT): the counts of
\* the OPTIONAL MATCHes, the score, the path length.
PeopleRow(user_id, suggestion) ==
    LET friends == Neighbors(user_id)
        user_skills == SkillsOf(user_id)
        company == worksAt[user_id]
        mutual_count == Cardinality({mutual \in Neighbors(suggestion) : mutual \in friends})
        common_skill_count ==
            Cardinality({common_skill \in SkillsOf(suggestion) : common_skill \in user_skills})
        suggestion_company == worksAt[suggestion]
        same_company == SameCompany(company, suggestion_company)
        score == PeopleScore(mutual_count, common_skill_count, same_company)
    IN  [user_id |-> suggestion,
         company |-> suggestion_company,
         mutual_connections |-> mutual_count,
         common_skills |-> common_skill_count,
         same_company |-> same_company,
         connection_path_length |-> ShortestPathLength(user_id, suggestion),
         score |-> ClampScore(score)]

\* PeopleFilter that lets every candidate through.
PeopleFilterNone(row) == TRUE

\* WHERE mutual_count > 0 OR common_skill_count > 0
\*    OR (company IS NOT NULL AND suggestion_company = company)
PeopleFilter(row) ==
    row.mutual_connections > 0 \/ row.common_skills > 0 \/ row.same_company

PeopleRows(user_id) ==
    {r \in {PeopleRow(user_id, s) : s \in PeopleCandidates(user_id)} : PeopleFilter(r)}

\* ORDER BY score DESC, mutual_count DESC
PeopleBefore(a, b) ==
    \/ a.score > b.score
    \/ a.score = b.score /\ a.mutual_connections > b.mutual_connections

\* Every list RecommendationService.get_people_suggestions may return.
PeopleLists(user_id, limit) ==
    LET rows == PeopleRows(user_id)
        before == [p \in rows \X rows |-> PeopleBefore(p[1], p[2])]
    IN  {Take(OrderBy(o, before), limit) : o \in ArrivalOrders(rows)}

get_people_suggestions(user_id, limit) ==
    /\ \E rows \in PeopleLists(user_id, limit) :
          resp' = [op |-> "people", user |-> user_id, limit |-> limit, rows |-> rows]
    /\ UNCHANGED <<users, hasSkill, worksAt, knows>>
    /\ UNCHANGED process

\* ------------------------------------------------------------------ writers
\* UserService.create_user: CREATE the node with a fresh user_id, then MERGE a
\* HAS_SKILL per supplied skill and a WORKS_AT to the supplied company.
\* This is a call none of whose statements fails, taken as one step; the
\* statements one by one, each free to fail, are create_user_node,
\* add_skill_to_user and add_company_to_user below.
create_user(skills, company) ==
    LET user_id == Cardinality(users) + 1
    IN  /\ user_id \in UserIds
        /\ users' = users \cup {user_id}
        /\ hasSkill' = hasSkill \cup {<<user_id, s>> : s \in skills}
        /\ worksAt' = worksAt @@ (user_id :> company)
        /\ resp' = [op |-> "create_user", user |-> user_id, limit |-> 0, rows |-> <<>>]
        /\ UNCHANGED knows
        /\ UNCHANGED process

\* seed_data.seed_users: CREATE n users without relationships.
seed_users(n) ==
    LET fresh == (Cardinality(users) + 1)..(Cardinality(users) + n)
    IN  /\ fresh \subseteq UserIds
        /\ users' = users \cup fresh
        /\ worksAt' = worksAt @@ [u \in fresh |-> Null]
        /\ resp' = NoResp
        /\ UNCHANGED <<hasSkill, knows>>
        /\ UNCHANGED process

\* seed_data.create_user_skills: MERGE (u)-[:HAS_SKILL]->(s) for the pairs
\* that rand() < 0.15 selects.
create_user_skills(selected) ==
    /\ hasSkill' = hasSkill \cup selected
    /\ resp' = NoResp
    /\ UNCHANGED <<users, worksAt, knows>>
    /\ UNCHANGED process

\* seed_data.create_user_companies: of the users without a WORKS_AT, one
\* (ORDER BY rand() LIMIT 1) is merged to one company.
create_user_companies(u, c) ==
    /\ u \in users
    /\ worksAt[u] = Null
    /\ worksAt' = [worksAt EXCEPT ![u] = Some(c)]
    /\ resp' = NoResp
    /\ UNCHANGED <<users, hasSkill, knows>>
    /\ UNCHANGED process

\* seed_data.create_user_connections: MERGE (u1)-[:KNOWS]-(u2) for the pairs
\* u1 <> u2 that rand() < $probability selects.
create_user_connections(selected) ==
    /\ users # {}
    /\ knows' = knows \cup selected
    /\ resp' = NoResp
    /\ UNCHANGED <<users, hasSkill, worksAt>>
    /\ UNCHANGED process

\* get_neo4j_driver without the test of the handle: a new driver every time.
get_neo4j_driver_always_new ==
    /\ Len(drivers) < MaxDrivers
    /\ drivers' = Append(drivers, "open")
    /\ _driver' = Some(Len(drivers) + 1)
    /\ resp' = [op |-> "get_neo4j_driver", driver |-> _driver'[1]]
    /\ UNCHANGED <<users, hasSkill, worksAt, knows, service_driver, calls, connection>>

\* ------------------------------------------------------------------ driver
\* database/connection.py get_neo4j_driver: create the global driver when
\* there is none, and return it.
get_neo4j_driver ==
    /\ IF _driver = Null
       THEN /\ Len(drivers) < MaxDrivers
            /\ drivers' = Append(drivers, "open")
            /\ _driver' = Some(Len(drivers) + 1)
       ELSE UNCHANGED <<_driver, drivers>>
    /\ resp' = [op |-> "get_neo4j_driver", driver |-> _driver'[1]]
    /\ UNCHANGED <<graph, service_driver, calls, connection>>

\* database/connection.py close_neo4j_driver: close the global driver when
\* there is one, and forget it.
close_neo4j_driver ==
    /\ IF _driver # Null
       THEN /\ drivers' = [drivers EXCEPT ![_driver[1]] = "closed"]
            /\ _driver' = Null
       ELSE UNCHANGED <<_driver, drivers>>
    /\ resp' = [op |-> "close_neo4j_driver", driver |-> 0]
    /\ UNCHANGED <<graph, service_driver, calls, connection>>

\* ------------------------------------------------------------------ connection object
\* How deep with-blocks on one Neo4jConnection are nested.
MaxNesting == 2

\* Neo4jConnection.__init__: self._driver = None, and no driver created yet.
Neo4jConnection == [_driver |-> Null, drivers |-> <<>>, entered |-> 0]

\* connect without the test of the handle: a new driver at every call.
Neo4jConnection_connect_always_new(self) ==
    [self EXCEPT !._driver = Some(Len(self.drivers) + 1),
                 !.drivers = Append(self.drivers, "open")]

\* Neo4jConnection.connect when GraphDatabase.driver does not raise: the
\* object after the call; self._driver is what the call returns.
Neo4jConnection_connect(self) ==
    IF self._driver = Null
    THEN [self EXCEPT !._driver = Some(Len(self.drivers) + 1),
                      !.drivers = Append(self.drivers, "open")]
    ELSE self

\* Neo4jConnection.close: the object after the call.
Neo4jConnection_close(self) ==
    IF self._driver # Null
    THEN [self EXCEPT !.drivers[self._driver[1]] = "closed", !._driver = Null]
    ELSE self

\* conn.connect(): ok tells whether GraphDatabase.driver, when it is called,
\* returns a driver or raises.
connect(ok) ==
    /\ IF connection._driver = Null /\ ~ok
       THEN /\ connection' = connection
            /\ resp' = [op |-> "connect", raised |-> TRUE, driver |-> 0]
       ELSE /\ connection' = Neo4jConnection_connect(connection)
            /\ Len(connection'.drivers) <= MaxDrivers
            /\ resp' = [op |-> "connect", raised |-> FALSE,
                        driver |-> connection'._driver[1]]
    /\ UNCHANGED <<graph, _driver, drivers, service_driver, calls>>

\* conn.close()
close ==
    /\ connection' = Neo4jConnection_close(connection)
    /\ resp' = [op |-> "close", raised |-> FALSE, driver |-> 0]
    /\ UNCHANGED <<graph, _driver, drivers, service_driver, calls>>

\* conn.verify_connectivity(): connect, then driver.verify_connectivity();
\* an exception of either is caught and answered with False.
verify_connectivity(ok, reachable) ==
    /\ IF connection._driver = Null /\ ~ok
       THEN /\ connection' = connection
            /\ resp' = [op |-> "verify_connectivity", raised |-> FALSE, driver |-> 0,
                        result |-> FALSE]
       ELSE /\ connection' = Neo4jConnection_connect(connection)
            /\ Len(connection'.drivers) <= MaxDrivers
            /\ resp' = [op |-> "verify_connectivity", raised |-> FALSE,
                        driver |-> connection'._driver[1], result |-> reachable]
    /\ UNCHANGED <<graph, _driver, drivers, service_driver, calls>>

\* conn.execute_query(query): connect, open a session on the driver, run the
\* query and return its records; here the query is seed_data's
\* MATCH (u:User) RETURN COUNT(u) AS count.  ok is as in connect; run_ok
\* tells whether session, run and the reading of the records succeed.
execute_query(ok, run_ok) ==
    /\ IF connection._driver = Null /\ ~ok
       THEN /\ connection' = connection
            /\ resp' = [op |-> "execute_query", raised |-> TRUE, driver |-> 0,
                        rows |-> <<>>]
       ELSE /\ connection' = Neo4jConnection_connect(connection)
            /\ Len(connection'.drivers) <= MaxDrivers
            /\ resp' = [op |-> "execute_query", raised |-> ~run_ok,
                        driver |-> connection'._driver[1],
                        rows |-> IF run_ok THEN <<[count |-> Cardinality(users)]>>
                                 ELSE <<>>]
    /\ UNCHANGED <<graph, _driver, drivers, service_driver, calls>>

\* with conn: -- __enter__ connects and returns self; when connect raises
\* the block is not entered and __exit__ will not run.
__enter__(ok) ==
    /\ connection.entered < MaxNesting
    /\ IF connection._driver = Null /\ ~ok
       THEN /\ connection' = connection
            /\ resp' = [op |-> "__enter__", raised |-> TRUE, driver |-> 0]
       ELSE /\ connection' = [Neo4jConnection_connect(connection) EXCEPT
                                 !.entered = connection.entered + 1]
            /\ Len(connection'.drivers) <= MaxDrivers
            /\ resp' = [op |-> "__enter__", raised |-> FALSE,
                        driver |-> connection'._driver[1]]
    /\ UNCHANGED <<graph, _driver, drivers, service_driver, calls>>

\* The with-block is left, by its end (exc FALSE) or by an exception of its
\* body (exc TRUE): __exit__ closes and returns None, so the exception goes on.
__exit__(exc) ==
    /\ connection.entered > 0
    /\ connection' = [Neo4jConnection_close(connection) EXCEPT
                         !.entered = connection.entered - 1]
    /\ resp' = [op |-> "__exit__", raised |-> exc, driver |-> 0]
    /\ UNCHANGED <<graph, _driver, drivers, service_driver, calls>>

\* ------------------------------------------------------------------ paths
\* shortestPath((from)-[:KNOWS*]-(to)): the shortest chains of KNOWS from a
\* to b, each the sequence of its users, a first and b last.
ShortestPaths(a, b) ==
    LET d == ShortestPathLength(a, b)
    IN  IF d = Null THEN {}
        ELSE {path \in [1..(d[1] + 1) -> users] :
                 /\ path[1] = a
                 /\ path[d[1] + 1] = b
                 /\ \A i \in 1..d[1] : Knows(path[i], path[i + 1])}

\* PathRecords with the nodes of the path taken from its far end.
PathRecordsReversed(from_user_id, to_user_id) ==
    IF from_user_id \notin users \/ to_user_id \notin users THEN {<<>>}
    ELSE IF ShortestPaths(from_user_id, to_user_id) = {}
         THEN {<<[path_length |-> -1, nodes |-> <<>>, exists |-> FALSE]>>}
         ELSE {<<[path_length |-> Len(path) - 1,
                  nodes |-> [i \in DOMAIN path |->
                                [user_id |-> path[Len(path) + 1 - i],
                                 company |-> worksAt[path[Len(path) + 1 - i]]]],
                  exists |-> TRUE]>> :
               path \in ShortestPaths(from_user_id, to_user_id)}

\* The records of PathService's query: none when either MATCH finds no user;
\* otherwise one, with path_length -1 and no nodes when there is no path,
\* else LENGTH(path) and a node_details entry per node of the path.
\* UNWIND makes one row per node of nodes(path), in path order; a user has
\* at most one WORKS_AT, so OPTIONAL MATCH keeps one row per node; COLLECT
\* gathers the rows in the order they arrive, which no ORDER BY changes.
PathRecords(from_user_id, to_user_id) ==
    IF from_user_id \notin users \/ to_user_id \notin users THEN {<<>>}
    ELSE IF ShortestPaths(from_user_id, to_user_id) = {}
         THEN {<<[path_length |-> -1, nodes |-> <<>>, exists |-> FALSE]>>}
         ELSE {<<[path_length |-> Len(path) - 1,
                  nodes |-> [i \in DOMAIN path |->
                                [user_id |-> path[i], company |-> worksAt[path[i]]]],
                  exists |-> TRUE]>> :
               path \in ShortestPaths(from_user_id, to_user_id)}

\* ShortestPathOf without max(0, ...): the record's path_length as it is.
ShortestPathOfUnclamped(from_user_id, to_user_id, records) ==
    IF records = <<>>
    THEN [from_user_id |-> from_user_id, to_user_id |-> to_user_id,
          path_length |-> 0, nodes |-> <<>>, exists |-> FALSE]
    ELSE LET record == records[1]
         IN  [from_user_id |-> from_user_id, to_user_id |-> to_user_id,
              path_length |-> record.path_length,
              nodes |-> IF record.exists /\ record.nodes # <<>> THEN record.nodes ELSE <<>>,
              exists |-> record.exists]

\* PathService.find_shortest_path after result.single(): the ShortestPath it
\* builds from the record, or from the absence of one.
ShortestPathOf(from_user_id, to_user_id, records) ==
    IF records = <<>>
    THEN [from_user_id |-> from_user_id, to_user_id |-> to_user_id,
          path_length |-> 0, nodes |-> <<>>, exists |-> FALSE]
    ELSE LET record == records[1]
         IN  [from_user_id |-> from_user_id, to_user_id |-> to_user_id,
              path_length |-> IF record.path_length > 0 THEN record.path_length ELSE 0,
              nodes |-> IF record.exists /\ record.nodes # <<>> THEN record.nodes ELSE <<>>,
              exists |-> record.exists]

\* ------------------------------------------------------------------ endpoints
\* limit: int = Query(10, ge=1, le=50)
MinQueryLimit == 1
MaxQueryLimit == 50

\* ValidLimit without le=50.
ValidLimitNoUpper(limit) == MinQueryLimit <= limit

ValidLimit(limit) == MinQueryLimit <= limit /\ limit <= MaxQueryLimit

\* A request slot that serves nothing.  pc is the handler's position, invoked
\* tells whether the service method was entered, driver is the driver of
\* the session, cursor the rows the query's result will hand over, fetched
\* the rows read from it so far; status, body and detail are the response.
\* For POST /users, user is the user_id the CREATE returned, skills and
\* company are the request's, and added counts the skills merged so far.
Idle ==
    [pc |-> "idle", op |-> "none", user |-> 0, to |-> 0, limit |-> 0,
     invoked |-> FALSE, driver |-> 0, cursor |-> <<>>, fetched |-> <<>>,
     status |-> 0, body |-> <<>>, detail |-> "",
     skills |-> <<>>, company |-> Null, added |-> 0]

\* Raise with the exception swallowed: the handler answers with an empty list.
RaiseAsEmpty(call, text) ==
    [call EXCEPT !.pc = "done", !.cursor = <<>>, !.fetched = <<>>,
                 !.status = 200, !.body = <<>>]

\* An exception leaves the service method and reaches the handler's
\* except Exception as e: raise HTTPException(status_code=500, detail=str(e)).
Raise(call, text) ==
    [call EXCEPT !.pc = "done", !.cursor = <<>>, !.fetched = <<>>,
                 !.status = 500, !.body = <<>>, !.detail = text]

\* Return with a not-found answer for a requester that is no user.
ReturnOrNotFound(call) ==
    IF call.user \in users
    THEN [call EXCEPT !.pc = "done", !.cursor = <<>>, !.fetched = <<>>,
                      !.status = 200,
                      !.body = IF call.op = "path"
                               THEN <<ShortestPathOf(call.user, call.to, call.fetched)>>
                               ELSE call.fetched]
    ELSE [call EXCEPT !.pc = "done", !.cursor = <<>>, !.fetched = <<>>,
                      !.status = 404, !.detail = "User not found"]

\* The service method returns what it read and the handler answers with it:
\* the list of models built from the records, or the ShortestPath.
Return(call) ==
    [call EXCEPT !.pc = "done", !.cursor = <<>>, !.fetched = <<>>,
                 !.status = 200,
                 !.body = IF call.op = "path"
                          THEN <<ShortestPathOf(call.user, call.to, call.fetched)>>
                          ELSE call.fetched]

\* What session.run may hand over for the call's query on the current graph.
QueryResults(call) ==
    IF call.op = "friends" THEN FriendLists(call.user, call.limit)
    ELSE IF call.op = "jobs" THEN JobLists(call.user, call.limit)
    ELSE IF call.op = "people" THEN PeopleLists(call.user, call.limit)
    ELSE PathRecords(call.user, call.to)

\* A request reaches one of the three recommendation handlers: FastAPI
\* answers 422 to a limit outside ge=1, le=50 without running the handler;
\* otherwise the handler calls the service method.
route_recommendations(r, op, user_id, limit) ==
    /\ calls[r].pc \in {"idle", "done"}
    /\ calls' = [calls EXCEPT ![r] =
          IF ValidLimit(limit)
          THEN [Idle EXCEPT !.pc = "called", !.op = op, !.user = user_id,
                            !.limit = limit, !.invoked = TRUE]
          ELSE [Idle EXCEPT !.pc = "done", !.op = op, !.user = user_id,
                            !.limit = limit, !.status = 422, !.detail = "validation"]]
    /\ UNCHANGED <<graph, resp, _driver, drivers, service_driver, connection>>

\* route_find_shortest_path without the comparison of from and to.
route_find_shortest_path_unchecked(r, from_user, to_user) ==
    /\ calls[r].pc \in {"idle", "done"}
    /\ calls' = [calls EXCEPT ![r] =
          [Idle EXCEPT !.pc = "called", !.op = "path", !.user = from_user,
                       !.to = to_user, !.invoked = TRUE]]
    /\ UNCHANGED <<graph, resp, _driver, drivers, service_driver, connection>>

\* routers/paths.py find_shortest_path: 400 when from and to are the same,
\* otherwise the handler calls PathService.find_shortest_path.
route_find_shortest_path(r, from_user, to_user) ==
    /\ calls[r].pc \in {"idle", "done"}
    /\ calls' = [calls EXCEPT ![r] =
          IF from_user = to_user
          THEN [Idle EXCEPT !.pc = "done", !.op = "path", !.user = from_user,
                            !.to = to_user, !.status = 400,
                            !.detail = "Source and target users must be different"]
          ELSE [Idle EXCEPT !.pc = "called", !.op = "path", !.user = from_user,
                            !.to = to_user, !.invoked = TRUE]]
    /\ UNCHANGED <<graph, resp, _driver, drivers, service_driver, connection>>

\* with self.driver.session() as session: the session is opened on the
\* driver the service captured, or opening it raises.
driver_session(r, ok) ==
    /\ calls[r].pc = "called"
    /\ calls' = [calls EXCEPT ![r] =
          IF ok THEN [calls[r] EXCEPT !.pc = "session", !.driver = service_driver]
          ELSE Raise(calls[r], "session")]
    /\ UNCHANGED <<graph, resp, _driver, drivers, service_driver, connection>>

\* session_run keeping the result on the service object, where every call
\* that is reading a result finds it.
session_run_shared(r, ok) ==
    /\ calls[r].pc = "session"
    /\ IF ok
       THEN \E rows \in QueryResults(calls[r]) :
               calls' = [q \in DOMAIN calls |->
                            IF q = r THEN [calls[r] EXCEPT !.pc = "running", !.cursor = rows]
                            ELSE IF calls[q].pc = "running"
                                 THEN [calls[q] EXCEPT !.cursor = rows]
                                 ELSE calls[q]]
       ELSE calls' = [calls EXCEPT ![r] = Raise(calls[r], "run")]
    /\ UNCHANGED <<graph, resp, _driver, drivers, service_driver, connection>>

\* result = session.run(query, ...): the database evaluates the query on the
\* graph as it is, or the call raises.
session_run(r, ok) ==
    /\ calls[r].pc = "session"
    /\ IF ok
       THEN \E rows \in QueryResults(calls[r]) :
               calls' = [calls EXCEPT ![r] =
                            [calls[r] EXCEPT !.pc = "running", !.cursor = rows]]
       ELSE calls' = [calls EXCEPT ![r] = Raise(calls[r], "run")]
    /\ UNCHANGED <<graph, resp, _driver, drivers, service_driver, connection>>

\* fetch_records closing the global driver as well.
fetch_records_closing(r, ok) ==
    /\ calls[r].pc = "running"
    /\ calls' = [calls EXCEPT ![r] =
          IF ~ok THEN Raise(calls[r], "read")
          ELSE IF Len(calls[r].fetched) < Len(calls[r].cursor)
               THEN [calls[r] EXCEPT !.fetched =
                        Append(calls[r].fetched, calls[r].cursor[Len(calls[r].fetched) + 1])]
               ELSE Return(calls[r])]
    /\ IF _driver # Null
       THEN /\ drivers' = [drivers EXCEPT ![_driver[1]] = "closed"]
            /\ _driver' = Null
       ELSE UNCHANGED <<_driver, drivers>>
    /\ UNCHANGED <<graph, resp, service_driver, connection>>

\* [Model(...) for record in result] and result.single(): the next record is
\* read, or reading raises and what was read is dropped with the stack
\* frame; when the result is exhausted the method returns.
fetch_records(r, ok) ==
    /\ calls[r].pc = "running"
    /\ calls' = [calls EXCEPT ![r] =
          IF ~ok THEN Raise(calls[r], "read")
          ELSE IF Len(calls[r].fetched) < Len(calls[r].cursor)
               THEN [calls[r] EXCEPT !.fetched =
                        Append(calls[r].fetched, calls[r].cursor[Len(calls[r].fetched) + 1])]
               ELSE Return(calls[r])]
    /\ UNCHANGED <<graph, resp, _driver, drivers, service_driver, connection>>

\* ------------------------------------------------------------------ POST /users, step by step
\* The lists of skills a request may carry: each set of skills in each order.
SkillLists == UNION {ArrivalOrders(S) : S \in SUBSET SkillNames}

\* routers/users.py create_user: the handler calls UserService.create_user.
route_create_user(r, skills, company) ==
    /\ calls[r].pc \in {"idle", "done"}
    /\ calls' = [calls EXCEPT ![r] =
          [Idle EXCEPT !.pc = "called", !.op = "create_user", !.skills = skills,
                       !.company = company, !.invoked = TRUE]]
    /\ UNCHANGED <<graph, resp, _driver, drivers, service_driver, connection>>

\* UserService.create_user up to user_id = record["user_id"]: a session is
\* opened and the CREATE runs in its own transaction, which commits the node,
\* or one of the two raises and nothing is written.
create_user_node(r, ok) ==
    LET user_id == Cardinality(users) + 1
    IN  /\ calls[r].pc = "called"
        /\ calls[r].op = "create_user"
        /\ user_id \in UserIds
        /\ IF ok
           THEN /\ users' = users \cup {user_id}
                /\ worksAt' = worksAt @@ (user_id :> Null)
                /\ calls' = [calls EXCEPT ![r] =
                      [calls[r] EXCEPT !.pc = "relationships", !.user = user_id,
                                       !.driver = service_driver]]
           ELSE /\ calls' = [calls EXCEPT ![r] = Raise(calls[r], "create")]
                /\ UNCHANGED <<users, worksAt>>
        /\ UNCHANGED <<hasSkill, knows, resp, _driver, drivers, service_driver, connection>>

\* _add_skill_to_user for the next skill of the list: its own session and
\* transaction merge the Skill and the HAS_SKILL, or raise; what the earlier
\* transactions committed stays.
add_skill_to_user(r, ok) ==
    /\ calls[r].pc = "relationships"
    /\ calls[r].added < Len(calls[r].skills)
    /\ IF ok
       THEN /\ hasSkill' = hasSkill \cup {<<calls[r].user, calls[r].skills[calls[r].added + 1]>>}
            /\ calls' = [calls EXCEPT ![r].added = calls[r].added + 1]
       ELSE /\ calls' = [calls EXCEPT ![r] = Raise(calls[r], "skill")]
            /\ UNCHANGED hasSkill
    /\ UNCHANGED <<users, worksAt, knows, resp, _driver, drivers, service_driver, connection>>

\* _add_company_to_user, after the skills, when a company was supplied.
add_company_to_user(r, ok) ==
    /\ calls[r].pc = "relationships"
    /\ calls[r].added = Len(calls[r].skills)
    /\ calls[r].company # Null
    /\ IF ok
       THEN /\ worksAt' = [worksAt EXCEPT ![calls[r].user] = calls[r].company]
            /\ calls' = [calls EXCEPT ![r].pc = "built"]
       ELSE /\ calls' = [calls EXCEPT ![r] = Raise(calls[r], "company")]
            /\ UNCHANGED worksAt
    /\ UNCHANGED <<users, hasSkill, knows, resp, _driver, drivers, service_driver, connection>>

\* return self._record_to_user(record), answered with status 201.
create_user_return(r) ==
    /\ \/ calls[r].pc = "built"
       \/ /\ calls[r].pc = "relationships"
          /\ calls[r].added = Len(calls[r].skills)
          /\ calls[r].company = Null
    /\ calls' = [calls EXCEPT ![r] =
          [calls[r] EXCEPT !.pc = "done", !.status = 201,
                           !.body = <<[user_id |-> calls[r].user]>>]]
    /\ UNCHANGED <<graph, resp, _driver, drivers, service_driver, connection>>

\* GET /users/{user_id}: UserService.get_user reads the user with its
\* skills, company and connections in one query; no record is a 404, an
\* exception a 500.
get_user(user_id, ok) ==
    /\ resp' = IF ~ok
               THEN [op |-> "get_user", user |-> user_id, status |-> 500]
               ELSE IF user_id \notin users
               THEN [op |-> "get_user", user |-> user_id, status |-> 404]
               ELSE [op |-> "get_user", user |-> user_id, status |-> 200,
                     skills |-> SkillsOf(user_id), company |-> worksAt[user_id],
                     connections |-> Neighbors(user_id)]
    /\ UNCHANGED graph
    /\ UNCHANGED process

\* ------------------------------------------------------------------ natural-language queries
\* A text is the sequence of its lines, blank lines and the white space that
\* strip() removes left out.  The completion's content is any text the
\* language model writes; the texts below put a query, an explanation and a
\* type word between the markers of the prompt, or leave the markers out.
\* "<fence>" stands for the three backquotes of a markdown code fence.
UsersCypher == <<"MATCH (u:User) RETURN u.user_id AS user_id LIMIT 10">>
CountCypher == <<"MATCH (u:User) RETURN COUNT(u) AS count">>
Queries == {UsersCypher, CountCypher, <<"MATCH (u:User RETURN u">>}
TypeWords == {"connections", "skills", "companies", "statistics", "General", "fallback"}

LlmContents ==
    {<<"CYPHER:">> \o cypher \o <<"EXPLANATION:", "It lists users.", "TYPE:", word>> :
        cypher \in Queries, word \in TypeWords}
    \cup {<<"CYPHER:", "<fence>cypher">> \o UsersCypher
             \o <<"<fence>", "EXPLANATION:", "It lists users.", "TYPE:", "General">>,
          <<"CYPHER:">> \o UsersCypher \o <<"EXPLANATION:", "It lists users.">>,
          UsersCypher,
          <<>>}

\* LIMIT 10 of the fallback query.
FallbackLimit == 10

\* text.split(marker)[0] and [1]: what stands before the first marker, and
\* between the first marker and the next (Part1 where the marker occurs).
Part0(text, marker) ==
    IF \E i \in DOMAIN text : text[i] = marker
    THEN SubSeq(text, 1, (CHOOSE i \in DOMAIN text :
                             /\ text[i] = marker
                             /\ \A j \in 1..(i - 1) : text[j] # marker) - 1)
    ELSE text

Part1(text, marker) ==
    Part0(SubSeq(text, Len(Part0(text, marker)) + 2, Len(text)), marker)

\* str.lower() on the words that occur.
Lower(word) == IF word = "General" THEN "general" ELSE word

\* LLMQueryService._parse_llm_response on a str: the three sections, each
\* with its default when its marker is missing, the code fences removed
\* from the query.  (Its except branch is not reached for a str.)
_parse_llm_response(content) ==
    LET Has(marker) == \E i \in DOMAIN content : content[i] = marker
        cypher_part == IF Has("CYPHER:")
                       THEN Part0(Part1(content, "CYPHER:"), "EXPLANATION:")
                       ELSE <<>>
        type_part == Part1(content, "TYPE:")
    IN  [cypher_query |-> SelectSeq(cypher_part, LAMBDA line : line \notin {"<fence>cypher", "<fence>"}),
         explanation |-> IF Has("EXPLANATION:")
                         THEN Part0(Part1(content, "EXPLANATION:"), "TYPE:")
                         ELSE <<>>,
         query_type |-> IF Has("TYPE:")
                        THEN [i \in DOMAIN type_part |-> Lower(type_part[i])]
                        ELSE <<"general">>]

\* session.run(cypher_query) and the reading of its records: the lists of
\* records the database may hand over, none when it rejects the text.
GeneratedResults(cypher_query) ==
    IF cypher_query = UsersCypher
    THEN {Take(order, FallbackLimit) : order \in ArrivalOrders({[user_id |-> u] : u \in users})}
    ELSE IF cypher_query = CountCypher
         THEN {<<[count |-> Cardinality(users)]>>}
         ELSE {}

\* fallback_cypher.strip()
FallbackCypher ==
    <<"MATCH (u:User)", "RETURN u.user_id AS user_id, u.name AS name, u.title AS title",
      "LIMIT 10">>

FallbackResults ==
    {Take(order, FallbackLimit) : order \in ArrivalOrders({[user_id |-> u] : u \in users})}

\* LLMQueryService._fallback_query: the fixed query is run, results are its
\* records or [] when that fails, and the response has query_type "fallback".
_fallback_query(error, results) ==
    [op |-> "process_natural_language_query", raised |-> FALSE,
     cypher_query |-> FallbackCypher, results |-> results,
     explanation |-> <<"Query generation failed: ", error, ". Showing sample users.">>,
     query_type |-> <<"fallback">>, error |-> Some(error)]

\* LLMQueryService.process_natural_language_query.  llm_ok: the completion
\* arrives with a str content; run_ok: session, run and reading succeed for
\* the generated query; fallback_ok: the same for the fallback query.  error
\* is the exception the method caught, if any.
process_natural_language_query(llm_ok, content, run_ok, fallback_ok) ==
    LET parsed == _parse_llm_response(content)
        error == IF ~llm_ok THEN "generation"
                 ELSE IF GeneratedResults(parsed.cypher_query) = {} THEN "syntax"
                 ELSE IF ~run_ok THEN "execution"
                 ELSE "none"
    IN  /\ IF error = "none"
           THEN \E results \in GeneratedResults(parsed.cypher_query) :
                   resp' = [op |-> "process_natural_language_query", raised |-> FALSE,
                            cypher_query |-> parsed.cypher_query, results |-> results,
                            explanation |-> parsed.explanation,
                            query_type |-> parsed.query_type, error |-> Null]
           ELSE \E results \in (IF fallback_ok THEN FallbackResults ELSE {<<>>}) :
                   resp' = _fallback_query(error, results)
        /\ UNCHANGED graph
        /\ UNCHANGED process

\* ------------------------------------------------------------------ system
\* The process once app.main is imported: importing the routers constructed
\* the services, whose __init__ called get_neo4j_driver(), which created the
\* first driver; no request is being served.
Started ==
    /\ _driver = Some(1)
    /\ drivers = <<"open">>
    /\ service_driver = 1
    /\ calls = [r \in 1..MaxCalls |-> Idle]
    /\ connection = Neo4jConnection

Init ==
    /\ users = {}
    /\ hasSkill = {}
    /\ worksAt = <<>>
    /\ knows = {}
    /\ resp = NoResp
    /\ Started

OptionalCompany == {Null} \cup {Some(c) : c \in CompanyNames}

Next ==
    \/ \E skills \in SUBSET SkillNames, company \in OptionalCompany :
          create_user(skills, company)
    \/ \E n \in 1..MaxUsers : seed_users(n)
    \/ \E selected \in SUBSET ((users \X SkillNames) \ hasSkill) :
          create_user_skills(selected)
    \/ \E u \in users, c \in CompanyNames : create_user_companies(u, c)
    \/ \E selected \in SUBSET ({pair \in SUBSET users : Cardinality(pair) = 2} \ knows) :
          create_user_connections(selected)
    \/ \E user_id \in UserIds, limit \in Limits :
          \/ get_friend_recommendations(user_id, limit)
          \/ get_job_recommendations(user_id, limit)
          \/ get_people_suggestions(user_id, limit)

Spec == Init /\ [][Next]_vars

\* ------------------------------------------------------------------ large signals
\* Graphs with many mutual connections and common skills: requester 1, the
\* candidates 2 and 3, and a pool of users 4.. whom the requester knows.
\* Candidate i knows the first m_i users of the pool, holds the first c_i of
\* the requester's skills, and works at the requester's company or at
\* another.  Candidate 2 takes the large values, candidate 3 the small ones
\* that tie with it.
MaxMutual == 15
MaxCommon == 4
MaxRivalMutual == 3
MaxRivalCommon == 3

FanGraph(m2, m3, c2, c3, e2, e3) ==
    LET pool == IF m2 > m3 THEN m2 ELSE m3
    IN  /\ users = 1..(3 + pool)
        /\ knows = {{1, f} : f \in 4..(3 + pool)}
                   \cup {{2, f} : f \in 4..(3 + m2)}
                   \cup {{3, f} : f \in 4..(3 + m3)}
        /\ hasSkill = {<<1, s>> : s \in 1..MaxCommon}
                      \cup {<<2, s>> : s \in 1..c2}
                      \cup {<<3, s>> : s \in 1..c3}
        /\ worksAt = [u \in 1..(3 + pool) |->
                         IF u = 1 THEN Some(1)
                         ELSE IF u = 2 THEN (IF e2 THEN Some(1) ELSE Some(2))
                         ELSE IF u = 3 THEN (IF e3 THEN Some(1) ELSE Some(2))
                         ELSE Null]

InitFan ==
    /\ \E m2 \in 0..MaxMutual, c2 \in 0..MaxCommon, e2, e3 \in BOOLEAN :
          \E m3 \in 0..MaxRivalMutual, c3 \in 0..MaxRivalCommon :
              FanGraph(m2, m3, c2, c3, e2, e3)
    /\ resp = NoResp
    /\ Started

\* The three scorers, asked by requester 1 for the top row or for the
\* longest list.
NextFan ==
    \E limit \in {1, MaxLimit} :
        \/ get_friend_recommendations(1, limit)
        \/ get_job_recommendations(1, limit)
        \/ get_people_suggestions(1, limit)

SpecFan == InitFan /\ [][NextFan]_vars

\* ------------------------------------------------------------------ skill sets
\* Graphs with larger skill sets: requester 1 holds the first h skills, user
\* 2 holds any skills, user 3 the first k, and each of the three works
\* anywhere or nowhere.
MaxJobSkills == 4

InitJobs ==
    /\ users = {1, 2, 3}
    /\ \E h, k \in 0..MaxJobSkills, s2 \in SUBSET (1..MaxJobSkills) :
          hasSkill = {<<1, s>> : s \in 1..h}
                     \cup {<<2, s>> : s \in s2} \cup {<<3, s>> : s \in 1..k}
    /\ worksAt \in [{1, 2, 3} -> OptionalCompany]
    /\ knows = {}
    /\ resp = NoResp
    /\ Started

NextJobs == \E limit \in Limits : get_job_recommendations(1, limit)

SpecJobs == InitJobs /\ [][NextJobs]_vars

\* ------------------------------------------------------------------ the served process
\* A graph the running service answers from: three users who all hold skill
\* 1, user 1 holding skill 2 as well, users 2 and 3 employed at different
\* companies, and the given KNOWS relationships.
ServedGraph(connections) ==
    /\ users = {1, 2, 3}
    /\ hasSkill = {<<1, 1>>, <<1, 2>>, <<2, 1>>, <<3, 1>>}
    /\ worksAt = <<Null, Some(1), Some(2)>>
    /\ knows = connections

\* The ids and limits requests carry: 0 is the id of no user; the limits
\* lie on both sides of each end of the accepted range.
RequestUsers == 0..MaxUsers
RequestLimits == {-1, 0, MinQueryLimit, MaxLimit, MaxQueryLimit, MaxQueryLimit + 1, 1000}
Scorers == {"friends", "jobs", "people"}

InitApi ==
    /\ ServedGraph({})
    /\ resp = NoResp
    /\ Started

\* One request at a time, with any arguments and any failure, while the
\* seed script adds connections and the driver is fetched and closed.
NextApi ==
    \/ \E op \in Scorers, user_id \in RequestUsers, limit \in RequestLimits :
          route_recommendations(1, op, user_id, limit)
    \/ \E from_user, to_user \in RequestUsers :
          route_find_shortest_path(1, from_user, to_user)
    \/ \E ok \in BOOLEAN : driver_session(1, ok)
    \/ \E ok \in BOOLEAN : session_run(1, ok)
    \/ \E ok \in BOOLEAN : fetch_records(1, ok)
    \/ get_neo4j_driver
    \/ close_neo4j_driver
    \/ \E selected \in SUBSET ({pair \in SUBSET users : Cardinality(pair) = 2} \ knows) :
          create_user_connections(selected)

SpecApi == InitApi /\ [][NextApi]_vars

\* Requests served side by side on a graph that stays as it is: without
\* KNOWS relationships, or with the chain 1 - 2 - 3.
InitCalls ==
    /\ \E connections \in {{}, {{1, 2}, {2, 3}}} : ServedGraph(connections)
    /\ resp = NoResp
    /\ Started

\* Each slot serves one scorer request after another, for requester 1 or 2
\* and the longest list; its session opens, its query runs, and reading the
\* result may fail.
NextCalls ==
    \E r \in 1..MaxCalls :
        \/ \E op \in Scorers, user_id \in {1, 2} :
              route_recommendations(r, op, user_id, MaxLimit)
        \/ driver_session(r, TRUE)
        \/ session_run(r, TRUE)
        \/ \E ok \in BOOLEAN : fetch_records(r, ok)

SpecCalls == InitCalls /\ [][NextCalls]_vars

\* ------------------------------------------------------------------ chains of connections
\* Graphs with every set of KNOWS relationships among MaxPathUsers users, so
\* that chains of each length up to MaxPathUsers - 1 occur, several shortest
\* ones between the same two users, and users no chain joins.  Everyone holds
\* skill 1, users 1 and 2 hold skill 2 as well, and user 2 is employed.
MaxPathUsers == 4

PathGraph(connections) ==
    /\ users = 1..MaxPathUsers
    /\ hasSkill = {<<u, 1>> : u \in 1..MaxPathUsers} \cup {<<1, 2>>, <<2, 2>>}
    /\ worksAt = [u \in 1..MaxPathUsers |-> IF u = 2 THEN Some(1) ELSE Null]
    /\ knows = connections

InitPaths ==
    /\ \E connections \in SUBSET {pair \in SUBSET (1..MaxPathUsers) : Cardinality(pair) = 2} :
          PathGraph(connections)
    /\ resp = NoResp
    /\ Started

\* Shortest-path requests from user 1, or from the id of no user, to any id,
\* served one at a time with any failure.
NextPaths ==
    \/ \E from_user \in {0, 1}, to_user \in 0..MaxPathUsers :
          route_find_shortest_path(1, from_user, to_user)
    \/ \E ok \in BOOLEAN : driver_session(1, ok)
    \/ \E ok \in BOOLEAN : session_run(1, ok)
    \/ \E ok \in BOOLEAN : fetch_records(1, ok)

SpecPaths == InitPaths /\ [][NextPaths]_vars

\* The friend and people scorers on the same graphs, for requester 1 or 2 and
\* a limit no list reaches.
NextReach ==
    \E user_id \in {1, 2} :
        \/ get_friend_recommendations(user_id, MaxPathUsers)
        \/ get_people_suggestions(user_id, MaxPathUsers)

SpecReach == InitPaths /\ [][NextReach]_vars

\* ------------------------------------------------------------------ the language model's answers
\* Graphs of 0 to MaxUsers users, and every answer of the language model.
InitLlm ==
    /\ \E n \in 0..MaxUsers :
          /\ users = 1..n
          /\ hasSkill = {<<u, 1>> : u \in 1..n}
          /\ worksAt = [u \in 1..n |-> Null]
    /\ knows = {}
    /\ resp = NoResp
    /\ Started

NextLlm ==
    \E llm_ok, run_ok, fallback_ok \in BOOLEAN, content \in LlmContents :
        process_natural_language_query(llm_ok, content, run_ok, fallback_ok)

SpecLlm == InitLlm /\ [][NextLlm]_vars

\* ------------------------------------------------------------------ a script's connection
\* A script process: it imports database/connection.py only, so there is no
\* global driver and no service; it holds one Neo4jConnection and calls its
\* methods in any order, on a graph of 0 to MaxUsers users.
InitConn ==
    /\ \E n \in 0..MaxUsers :
          /\ users = 1..n
          /\ hasSkill = {}
          /\ worksAt = [u \in 1..n |-> Null]
    /\ knows = {}
    /\ resp = NoResp
    /\ _driver = Null
    /\ drivers = <<>>
    /\ service_driver = 0
    /\ calls = [r \in 1..MaxCalls |-> Idle]
    /\ connection = Neo4jConnection

NextConn ==
    \/ \E ok \in BOOLEAN : connect(ok)
    \/ close
    \/ \E ok, reachable \in BOOLEAN : verify_connectivity(ok, reachable)
    \/ \E ok, run_ok \in BOOLEAN : execute_query(ok, run_ok)
    \/ \E ok \in BOOLEAN : __enter__(ok)
    \/ \E exc \in BOOLEAN : __exit__(exc)

SpecConn == InitConn /\ [][NextConn]_vars

\* ------------------------------------------------------------------ users being created
\* An empty database, on which users are created through the endpoint one
\* request at a time, any step of a request free to fail, while GET
\* /users/{user_id} reads.  Requests are accepted until MaxCreated users exist.
MaxCreated == 2

InitCreate ==
    /\ users = {}
    /\ hasSkill = {}
    /\ worksAt = <<>>
    /\ knows = {}
    /\ resp = NoResp
    /\ Started

NextCreate ==
    \/ /\ Cardinality(users) < MaxCreated
       /\ \E skills \in SkillLists, company \in OptionalCompany :
             route_create_user(1, skills, company)
    \/ \E ok \in BOOLEAN : create_user_node(1, ok)
    \/ \E ok \in BOOLEAN : add_skill_to_user(1, ok)
    \/ \E ok \in BOOLEAN : add_company_to_user(1, ok)
    \/ create_user_return(1)
    \/ \E user_id \in 1..MaxCreated, ok \in BOOLEAN : get_user(user_id, ok)

SpecCreate == InitCreate /\ [][NextCreate]_vars

\* ------------------------------------------------------------------ the graph, read directly
\* What the properties below say about the graph, stated without the queries.
Connected(u, v) == {u, v} \in knows

Mutuals(u, v) == {w \in users : Connected(w, u) /\ Connected(w, v)}

SharedSkills(u, v) == {s \in SkillsOf(u) : s \in SkillsOf(v)}

SameEmployer(u, v) == \E c \in CompanyNames : worksAt[u] = Some(c) /\ worksAt[v] = Some(c)

RowsOf(r) == {r.rows[i] : i \in DOMAIN r.rows}

\* ------------------------------------------------------------------ C1
\* C1: every result of the three scorers carries a score between 0 and 1
\* inclusive, and a friend or people result whose weighted sum is above 1.0
\* carries exactly 1.0.
C1_ScoreWithinUnit ==
    /\ resp.op = "friends" =>
          \A r \in RowsOf(resp) :
              /\ 0 <= r.score /\ r.score <= 100
              /\ 6 * Cardinality(Mutuals(resp.user, r.user_id))
                   + 4 * Cardinality(SharedSkills(resp.user, r.user_id)) > 100
                 => r.score = 100
    /\ resp.op = "people" =>
          \A r \in RowsOf(resp) :
              /\ 0 <= r.score /\ r.score <= 100
              /\ 5 * Cardinality(Mutuals(resp.user, r.user_id))
                   + 3 * Cardinality(SharedSkills(resp.user, r.user_id))
                   + (IF SameEmployer(resp.user, r.user_id) THEN 20 ELSE 0) > 100
                 => r.score = 100
    /\ resp.op = "jobs" =>
          \A r \in RowsOf(resp) :
              /\ r.score.den > 0
              /\ 0 <= r.score.num /\ r.score.num <= r.score.den

\* A friend recommendation whose weighted sum is above 1.0 was returned with 1.0.
C1_Witness ==
    /\ resp.op = "friends"
    /\ \E r \in RowsOf(resp) :
          /\ 6 * Cardinality(Mutuals(resp.user, r.user_id))
               + 4 * Cardinality(SharedSkills(resp.user, r.user_id)) > 100
          /\ r.score = 100

\* ------------------------------------------------------------------ C2
\* C2: a friend recommendation or people suggestion is never the requester
\* and never a user the requester is joined to by KNOWS.
C2_NoSelfNoConnection ==
    resp.op \in {"friends", "people"} =>
        \A r \in RowsOf(resp) :
            r.user_id # resp.user /\ ~Connected(resp.user, r.user_id)

\* Suggestions were returned to a requester one of whose connections shares
\* a skill with it (and would qualify were it not connected).
C2_Witness ==
    /\ resp.op = "people"
    /\ resp.rows # <<>>
    /\ \E v \in users : Connected(resp.user, v) /\ SharedSkills(resp.user, v) # {}

\* ------------------------------------------------------------------ C3
\* C3: friend recommendations and people suggestions come sorted by the
\* returned score, highest first, and of two adjacent results with the same
\* score the earlier has at least as many mutual connections.
C3_SortedByScoreThenMutual ==
    resp.op \in {"friends", "people"} =>
        \A i \in DOMAIN resp.rows :
            i + 1 \in DOMAIN resp.rows =>
                /\ resp.rows[i].score >= resp.rows[i + 1].score
                /\ resp.rows[i].score = resp.rows[i + 1].score =>
                      resp.rows[i].mutual_connections >= resp.rows[i + 1].mutual_connections

\* Two friend recommendations with the same score and different numbers of
\* mutual connections were returned.
C3_Witness ==
    /\ resp.op = "friends"
    /\ Len(resp.rows) = 2
    /\ resp.rows[1].score = resp.rows[2].score
    /\ resp.rows[1].mutual_connections > resp.rows[2].mutual_connections

\* ------------------------------------------------------------------ C4
\* Every list the named scorer may return for a requester and a limit.
ListsOf(op, user_id, limit) ==
    IF op = "friends" THEN FriendLists(user_id, limit)
    ELSE IF op = "jobs" THEN JobLists(user_id, limit)
    ELSE PeopleLists(user_id, limit)

\* C4: on an unchanged graph the call with limit k returns at most k results,
\* and they are the first k results of the call with limit k + 1.
C4_PrefixOfNextLimit ==
    resp.op \in {"friends", "jobs", "people"} =>
        /\ Len(resp.rows) <= resp.limit
        /\ \A longer \in ListsOf(resp.op, resp.user, resp.limit + 1) :
              resp.rows = Take(longer, resp.limit)

\* ------------------------------------------------------------------ C5
\* The employees of a company, other than the requester, who share a skill
\* with the requester, and the skills they hold between them.
SkilledEmployees(user_id, company) ==
    {o \in users : /\ o # user_id
                   /\ worksAt[o] = Some(company)
                   /\ SharedSkills(user_id, o) # {}}

EmployerSkills(user_id, company) ==
    UNION {SkillsOf(o) : o \in SkilledEmployees(user_id, company)}

\* C5: required_skills is the union of all skills of the employees who share
\* a skill with the requester, matching_skills is its intersection with the
\* requester's skills, and skill_match_rate = score = |matching| / |required|.
C5_RequiredSkillsAreAllEmployeeSkills ==
    resp.op = "jobs" =>
        \A r \in RowsOf(resp) :
            LET company_skills == EmployerSkills(resp.user, r.company)
                matching == company_skills \cap SkillsOf(resp.user)
            IN  /\ r.required_skills = company_skills
                /\ r.matching_skills = matching
                /\ r.skill_match_rate = r.score
                /\ IF company_skills = {} THEN r.score.num = 0
                   ELSE r.score.num * Cardinality(company_skills)
                            = Cardinality(matching) * r.score.den

\* ------------------------------------------------------------------ C6
\* The candidate employers: companies other than the requester's own that
\* employ another user sharing a skill with the requester.
CandidateEmployers(user_id) ==
    {c \in CompanyNames : /\ worksAt[user_id] # Some(c)
                          /\ SkilledEmployees(user_id, c) # {}}

\* |matching_skills| / |company_skills| of C5 is above 3/10.
RateAboveThreeTenths(user_id, company) ==
    10 * Cardinality(EmployerSkills(user_id, company) \cap SkillsOf(user_id))
        > 3 * Cardinality(EmployerSkills(user_id, company))

\* C6: an employer is returned only if its match rate is strictly above 3/10,
\* and every candidate employer above 3/10 is returned unless the limit cut
\* it off.
C6_KeptOnlyAboveThreeTenths ==
    resp.op = "jobs" /\ resp.user \in users =>
        /\ \A r \in RowsOf(resp) : RateAboveThreeTenths(resp.user, r.company)
        /\ \A c \in CandidateEmployers(resp.user) :
              RateAboveThreeTenths(resp.user, c) =>
                  \/ \E r \in RowsOf(resp) : r.company = c
                  \/ Len(resp.rows) = resp.limit

\* ------------------------------------------------------------------ C7
\* C7: every people suggestion has a mutual connection, a common skill or
\* the requester's employer, both in the counts it carries and in the graph.
C7_SomeSignal ==
    resp.op = "people" =>
        \A r \in RowsOf(resp) :
            /\ r.mutual_connections > 0 \/ r.common_skills > 0 \/ r.same_company
            /\ \/ Mutuals(resp.user, r.user_id) # {}
               \/ SharedSkills(resp.user, r.user_id) # {}
               \/ SameEmployer(resp.user, r.user_id)

\* Suggestions were returned while another user, not connected to the
\* requester, has none of the three signals.
C7_Witness ==
    /\ resp.op = "people"
    /\ resp.rows # <<>>
    /\ \E v \in users :
          /\ v # resp.user
          /\ ~Connected(resp.user, v)
          /\ Mutuals(resp.user, v) = {}
          /\ SharedSkills(resp.user, v) = {}
          /\ ~SameEmployer(resp.user, v)

C9_PeopleScoreFormula ==
    resp.op = "people" =>
        /\ \A r \in RowsOf(resp) :
              LET m == Cardinality(Mutuals(resp.user, r.user_id))
                  c == Cardinality(SharedSkills(resp.user, r.user_id))
                  e == IF SameEmployer(resp.user, r.user_id) THEN 1 ELSE 0
              IN  /\ r.mutual_connections = m
                  /\ r.common_skills = c
                  /\ r.same_company = (e = 1)
                  /\ r.score = Min(5 * m + 3 * c + 20 * e, 100)
        /\ \A v \in users :
              (/\ resp.user \in users
               /\ v # resp.user
               /\ ~Connected(resp.user, v)
               /\ Mutuals(resp.user, v) = {}
               /\ SharedSkills(resp.user, v) = {}
               /\ SameEmployer(resp.user, v))
              => \/ \E r \in RowsOf(resp) : r.user_id = v /\ r.score = 20
                 \/ Len(resp.rows) = resp.limit /\ \A r \in RowsOf(resp) : r.score >= 20

\* A candidate with the requester's employer, no mutual connection and no
\* common skill was returned with score 0.2.
C9_Witness ==
    /\ resp.op = "people"
    /\ \E r \in RowsOf(resp) :
          /\ Mutuals(resp.user, r.user_id) = {}
          /\ SharedSkills(resp.user, r.user_id) = {}
          /\ SameEmployer(resp.user, r.user_id)
          /\ r.score = 20

\* ------------------------------------------------------------------ C10
\* C10: the reason of a friend recommendation is 'Many mutual connections'
\* when mutual_connections > 5, otherwise 'Similar skills' when it has more
\* than 3 common skills, otherwise 'Mutual connections'.
C10_ReasonFirstMatch ==
    resp.op = "friends" =>
        \A r \in RowsOf(resp) :
            LET m == Cardinality(Mutuals(resp.user, r.user_id))
                c == Cardinality(SharedSkills(resp.user, r.user_id))
            IN  /\ m > 5 => r.reason = "Many mutual connections"
                /\ m <= 5 /\ c > 3 => r.reason = "Similar skills"
                /\ m <= 5 /\ c <= 3 => r.reason = "Mutual connections"

\* One list holds a candidate with more than 5 mutual connections and more
\* than 3 common skills, given 'Many mutual connections', and a candidate
\* with fewer and with exactly 3 common skills, given 'Mutual connections'.
C10_Witness ==
    /\ resp.op = "friends"
    /\ \E r \in RowsOf(resp) :
          /\ r.mutual_connections > 5
          /\ Cardinality(r.common_skills) > 3
          /\ r.reason = "Many mutual connections"
    /\ \E r \in RowsOf(resp) :
          /\ r.mutual_connections <= 5
          /\ Cardinality(r.common_skills) = 3
          /\ r.reason = "Mutual connections"

\* ------------------------------------------------------------------ C11
\* C11: on an unchanged graph every invocation of a scorer with the same
\* requester and limit returns the same ordered list: the list returned is
\* the only list the call may return.
C11_SameListEveryTime ==
    resp.op \in {"friends", "jobs", "people"} =>
        \A rows \in ListsOf(resp.op, resp.user, resp.limit) : rows = resp.rows

\* ------------------------------------------------------------------ C12
\* The scorer requests that have been received.
ScorerCalls == {r \in DOMAIN calls : calls[r].op \in {"friends", "jobs", "people"}}

\* C12: a recommendation request with a limit below 1 or above 50 is answered
\* 422 and enters no service method; one with a limit in 1..50 enters it and
\* is not answered 422.
C12_LimitOutsideRangeRejected ==
    \A r \in ScorerCalls :
        IF calls[r].limit < 1 \/ calls[r].limit > 50
        THEN /\ calls[r].pc = "done"
             /\ calls[r].status = 422
             /\ ~calls[r].invoked
             /\ calls[r].body = <<>>
        ELSE /\ calls[r].invoked
             /\ calls[r].status # 422

\* A request with limit 51 was answered 422.
C12_Witness ==
    \E r \in ScorerCalls :
        calls[r].limit = 51 /\ calls[r].status = 422 /\ ~calls[r].invoked

\* ------------------------------------------------------------------ C13
\* C13: a recommendation call that ends before its query's result was read to
\* the end is answered 500 with the exception's text and no list; a call is
\* answered 200 only from the read-out result, with all of its rows, so an
\* empty list is a success only when the query produced no rows.
C13_FailureIsError ==
    [][\A r \in ScorerCalls :
          (calls[r].pc \in {"called", "session", "running"} /\ calls'[r].pc = "done") =>
              IF calls[r].pc = "running" /\ calls[r].fetched = calls[r].cursor
                 /\ calls'[r].status = 200
              THEN calls'[r].body = calls[r].cursor
              ELSE /\ calls'[r].status = 500
                   /\ calls'[r].body = <<>>
                   /\ calls'[r].detail \in {"session", "run", "read"}]_vars

\* A call whose query had rows failed while they were read and was answered
\* 500 without a list.
C13_Witness ==
    \E r \in ScorerCalls :
        /\ calls[r].status = 500
        /\ calls[r].detail = "read"
        /\ calls[r].body = <<>>
        /\ \E rows \in ListsOf(calls[r].op, calls[r].user, calls[r].limit) : rows # <<>>

\* ------------------------------------------------------------------ C14
\* C14: a call of any of the three scorers for a requester id that is no
\* user's, once it has run, is answered 200 with the empty list; it is
\* answered otherwise only when the session, the query or the reading failed,
\* and never with a not-found status.
C14_UnknownRequesterGetsEmptyList ==
    \A r \in ScorerCalls :
        (calls[r].pc = "done" /\ calls[r].invoked /\ calls[r].user \notin users) =>
            \/ calls[r].status = 200 /\ calls[r].body = <<>>
            \/ calls[r].status = 500 /\ calls[r].detail \in {"session", "run", "read"}

\* The people scorer has answered 200 with the empty list to a requester id
\* that is no user's, on a graph whose users share a skill.
C14_Witness ==
    \E r \in ScorerCalls :
        /\ calls[r].pc = "done"
        /\ calls[r].user \notin users
        /\ calls[r].status = 200
        /\ calls[r].body = <<>>
        /\ calls[r].op = "people"
        /\ \E u, v \in users : u # v /\ SharedSkills(u, v) # {}

\* ------------------------------------------------------------------ C15
\* C15: a job recommendation never names the company the requester works
\* at, and the company it names employs a user other than the requester who
\* shares a skill with the requester.
C15_OtherEmployersOfSkillSharers ==
    resp.op = "jobs" =>
        \A r \in RowsOf(resp) :
            /\ worksAt[resp.user] # Some(r.company)
            /\ \E o \in users :
                  /\ o # resp.user
                  /\ worksAt[o] = Some(r.company)
                  /\ SharedSkills(resp.user, o) # {}

\* Companies were recommended to a requester whose own employer also
\* employs a user sharing a skill with it.
C15_Witness ==
    /\ resp.op = "jobs"
    /\ resp.rows # <<>>
    /\ worksAt[resp.user] # Null
    /\ \E o \in users :
          /\ o # resp.user
          /\ worksAt[o] = worksAt[resp.user]
          /\ SharedSkills(resp.user, o) # {}

\* ------------------------------------------------------------------ C16
\* C16: for a requester that is a user and has no skill,
\* get_job_recommendations returns the empty list.
C16_NoSkillsNoJobs ==
    (resp.op = "jobs" /\ resp.user \in users /\ SkillsOf(resp.user) = {}) =>
        resp.rows = <<>>

\* A requester without a skill asked for jobs while other users with skills
\* are employed, at companies the requester does not work at.
C16_Witness ==
    /\ resp.op = "jobs"
    /\ resp.user \in users
    /\ SkillsOf(resp.user) = {}
    /\ resp.rows = <<>>
    /\ \E o \in users :
          /\ o # resp.user
          /\ SkillsOf(o) # {}
          /\ worksAt[o] # Null
          /\ worksAt[o] # worksAt[resp.user]

\* ------------------------------------------------------------------ C17
\* C17: no step of a recommendation call, successful or failing, changes the
\* graph (users, HAS_SKILL, WORKS_AT, KNOWS) or the global driver handle and
\* the drivers behind it.
C17_CallsWriteNothing ==
    [][(\E r \in DOMAIN calls :
           calls'[r] # calls[r] /\ calls'[r].op \in {"friends", "jobs", "people"})
       => UNCHANGED <<users, hasSkill, worksAt, knows, _driver, drivers>>]_vars

\* A recommendation call has returned rows after the graph was written and
\* the global driver replaced.
C17_Witness ==
    \E r \in ScorerCalls :
        /\ calls[r].status = 200
        /\ calls[r].body # <<>>
        /\ knows # {}
        /\ Len(drivers) > 1

\* ------------------------------------------------------------------ C18
\* seq holds the first rows of full, in order.
IsPrefix(seq, full) == Len(seq) <= Len(full) /\ seq = SubSeq(full, 1, Len(seq))

\* C18: with calls served side by side on one graph, the result each call
\* reads and the list it is answered with is a list the same scorer returns
\* for the same requester and limit when run alone.
C18_EachCallAsIfAlone ==
    \A r \in ScorerCalls :
        /\ calls[r].pc = "running" =>
              /\ calls[r].cursor \in ListsOf(calls[r].op, calls[r].user, calls[r].limit)
              /\ IsPrefix(calls[r].fetched, calls[r].cursor)
        /\ (calls[r].pc = "done" /\ calls[r].status = 200) =>
              calls[r].body \in ListsOf(calls[r].op, calls[r].user, calls[r].limit)

\* Two calls of the people scorer for different requesters are each in the
\* middle of reading their result.
C18_Witness ==
    \E r, q \in ScorerCalls :
        /\ r # q
        /\ calls[r].pc = "running" /\ calls[q].pc = "running"
        /\ calls[r].op = "people" /\ calls[q].op = "people"
        /\ calls[r].user # calls[q].user
        /\ calls[r].fetched # <<>> /\ calls[r].fetched # calls[r].cursor
        /\ calls[q].fetched # <<>> /\ calls[q].fetched # calls[q].cursor

\* ------------------------------------------------------------------ C19
\* C19: a shortest-path request whose from and to are equal is answered 400
\* and enters no service method, whether or not the id is a user's and
\* whatever the state of the driver.
C19_SameEndsRejected ==
    \A r \in DOMAIN calls :
        (calls[r].op = "path" /\ calls[r].user = calls[r].to) =>
            /\ calls[r].pc = "done"
            /\ calls[r].status = 400
            /\ ~calls[r].invoked

\* A request from a user to itself was answered 400 while the global driver
\* was closed.
C19_Witness ==
    \E r \in DOMAIN calls :
        /\ calls[r].op = "path"
        /\ calls[r].user = calls[r].to
        /\ calls[r].user \in users
        /\ calls[r].status = 400
        /\ _driver = Null

\* ------------------------------------------------------------------ C20
\* The drivers that were created and not closed.
OpenDrivers == {d \in DOMAIN drivers : drivers[d] = "open"}

\* C20: at most one driver is open at any time, and it is the one the handle
\* holds; get_neo4j_driver() with a driver present returns that driver and
\* creates none, so calls with no close in between return the same one; and
\* close_neo4j_driver() with no driver present changes nothing.
C20_OneDriverAtATime ==
    /\ [](/\ Cardinality(OpenDrivers) <= 1
          /\ \A d \in OpenDrivers : _driver = Some(d)
          /\ resp.op = "get_neo4j_driver" => _driver = Some(resp.driver))
    /\ [][/\ (_driver # Null /\ resp'.op = "get_neo4j_driver") =>
                /\ resp'.driver = _driver[1]
                /\ UNCHANGED <<_driver, drivers>>
          /\ (_driver = Null /\ resp'.op = "close_neo4j_driver") =>
                UNCHANGED <<_driver, drivers>>]_vars

\* get_neo4j_driver() returned a second driver after the first was closed.
C20_Witness ==
    /\ resp.op = "get_neo4j_driver"
    /\ resp.driver = 2
    /\ drivers = <<"closed", "open">>

\* ------------------------------------------------------------------ C21
RECURSIVE Reach(_, _)
\* The users a chain of at most n KNOWS relationships joins to one of seen.
Reach(seen, n) ==
    IF n = 0 THEN seen
    ELSE Reach(seen \cup {w \in users : \E x \in seen : Connected(x, w)}, n - 1)

\* Some chain of KNOWS relationships joins u and v.
Joined(u, v) == v \in Reach({u}, Cardinality(users))

PathCalls == {r \in DOMAIN calls : calls[r].op = "path" /\ calls[r].status = 200}

\* C21: when find_shortest_path returns exists = true, nodes lists the users
\* of the path in path order (each connected to the next), its first entry
\* is from_user_id, its last to_user_id, and it has exactly path_length + 1
\* entries, with path_length >= 1.
C21_PathNodesInOrder ==
    \A r \in PathCalls :
        LET found == calls[r].body[1]
            n == Len(found.nodes)
        IN  found.exists =>
               /\ found.path_length >= 1
               /\ n = found.path_length + 1
               /\ found.nodes[1].user_id = calls[r].user
               /\ found.nodes[n].user_id = calls[r].to
               /\ \A i \in 1..(n - 1) :
                     Connected(found.nodes[i].user_id, found.nodes[i + 1].user_id)

\* A path of three relationships was returned, or one of two through the
\* employed user 2.
C21_Witness ==
    \E r \in PathCalls :
        /\ calls[r].body[1].exists
        /\ calls[r].body[1].path_length = MaxPathUsers - 1
        /\ \E i \in DOMAIN calls[r].body[1].nodes :
              calls[r].body[1].nodes[i].company # Null

\* ------------------------------------------------------------------ C22
\* C22: find_shortest_path returns exists = false with path_length 0 and no
\* nodes both when an id matches no user and when both users exist but no
\* chain of KNOWS joins them; path_length is never negative, and
\* exists = false never comes with nodes.
C22_NoPathIsZeroAndEmpty ==
    \A r \in PathCalls :
        LET found == calls[r].body[1]
        IN  /\ found.path_length >= 0
            /\ ~found.exists => found.path_length = 0 /\ found.nodes = <<>>
            /\ (calls[r].user \notin users \/ calls[r].to \notin users) => ~found.exists
            /\ (/\ calls[r].user \in users
                /\ calls[r].to \in users
                /\ ~Joined(calls[r].user, calls[r].to)) => ~found.exists

\* Two users whom no chain joins were asked for while other users are
\* connected, and the answer came.
C22_Witness ==
    \E r \in PathCalls :
        /\ calls[r].user \in users
        /\ calls[r].to \in users
        /\ ~Joined(calls[r].user, calls[r].to)
        /\ knows # {}
        /\ ~calls[r].body[1].exists

\* ------------------------------------------------------------------ C23
\* C23: process_natural_language_query never raises; when generation,
\* parsing or execution of the generated query fails, the response has
\* query_type "fallback", the fixed sample-users query as cypher_query, and
\* that query's rows as results, or none if it fails too; and query_type
\* "fallback" is returned only on such a failure.
C23_FallbackOnlyOnFailure ==
    resp.op = "process_natural_language_query" =>
        /\ ~resp.raised
        /\ resp.error # Null =>
              /\ resp.query_type = <<"fallback">>
              /\ resp.cypher_query = FallbackCypher
              /\ \/ resp.results = <<>>
                 \/ /\ RowsOf([rows |-> resp.results]) = {[user_id |-> u] : u \in users}
                    /\ Len(resp.results) = Cardinality(users)
        /\ resp.query_type = <<"fallback">> => resp.error # Null

\* ------------------------------------------------------------------ C24
\* The drivers the Neo4jConnection created and has not closed.
UnclosedDrivers == {d \in DOMAIN connection.drivers : connection.drivers[d] = "open"}

\* C24: on one Neo4jConnection, under any sequence of connect,
\* execute_query, close and with-block entry and exit: at most one driver
\* it created is unclosed, and the handle is that driver; after close() and
\* after leaving a with-block, normally or by exception, the handle is none
\* and no driver is unclosed; connect (alone or inside execute_query,
\* verify_connectivity, __enter__) reuses the driver while one is open; a
\* close() without an open driver does nothing; and execute_query() without
\* an open driver opens a fresh one.
C24_OneDriverPerConnection ==
    /\ [](/\ Cardinality(UnclosedDrivers) <= 1
          /\ connection._driver # Null => UnclosedDrivers = {connection._driver[1]}
          /\ resp.op \in {"close", "__exit__"} =>
                connection._driver = Null /\ UnclosedDrivers = {})
    /\ [][/\ (/\ connection._driver # Null
              /\ resp'.op \in {"connect", "execute_query", "verify_connectivity", "__enter__"})
             => /\ connection'._driver = connection._driver
                /\ connection'.drivers = connection.drivers
          /\ (connection._driver = Null /\ resp'.op = "close")
             => connection' = connection
          /\ (/\ connection._driver = Null
              /\ resp'.op = "execute_query"
              /\ resp'.driver # 0)
             => /\ connection'._driver = Some(Len(connection.drivers) + 1)
                /\ connection'.drivers = Append(connection.drivers, "open")]_vars

\* Inside a with-block the connection was closed and execute_query then
\* opened the second driver, the first staying closed.
C24_Witness ==
    /\ resp.op = "execute_query"
    /\ ~resp.raised
    /\ connection.entered > 0
    /\ connection._driver = Some(2)
    /\ connection.drivers = <<"closed", "open">>

\* ------------------------------------------------------------------ C25
\* C25: every query a service issues runs on a driver that has not been
\* closed: once close_neo4j_driver() has been followed by a new
\* get_neo4j_driver(), a service opens its session on the newly created
\* open driver, which is the global one, not on the driver it captured when
\* it was constructed.
C25_QueriesOnTheOpenDriver ==
    [][\A r \in DOMAIN calls :
          (/\ calls[r].pc = "called"
           /\ calls'[r].pc = "session"
           /\ _driver # Null)
          => /\ calls'[r].driver = _driver[1]
             /\ drivers[calls'[r].driver] = "open"]_vars

\* ------------------------------------------------------------------ C26
CreateCalls == {r \in DOMAIN calls : calls[r].op = "create_user"}

\* C26: create_user is all-or-nothing: when the endpoint answers 500, no
\* User node (and so no relationship) created by the call remains; when it
\* answers 201, the new user has a HAS_SKILL to every supplied skill and a
\* WORKS_AT to the supplied company; and no reader sees the new user with
\* only part of its supplied skills.
C26_CreateUserAllOrNothing ==
    \A r \in CreateCalls :
        LET supplied == {calls[r].skills[i] : i \in DOMAIN calls[r].skills}
        IN  /\ calls[r].status = 500 => calls[r].user \notin users
            /\ calls[r].status = 201 =>
                  /\ calls[r].user \in users
                  /\ SkillsOf(calls[r].user) = supplied
                  /\ worksAt[calls[r].user] = calls[r].company
            /\ (/\ resp.op = "get_user"
                /\ resp.status = 200
                /\ resp.user = calls[r].user)
               => resp.skills = supplied

\* ------------------------------------------------------------------ C27
\* C27: every job recommendation has matching_skills equal to
\* required_skills and skill_match_rate = score = 1, on every graph and for
\* every requester, so the match_rate > 0.3 filter removes no candidate:
\* every candidate employer is returned unless the limit cut it off.
C27_JobRateIsAlwaysOne ==
    resp.op = "jobs" /\ resp.user \in users =>
        /\ \A r \in RowsOf(resp) :
              /\ r.matching_skills = r.required_skills
              /\ r.skill_match_rate.den > 0
              /\ r.skill_match_rate.num = r.skill_match_rate.den
              /\ r.score = r.skill_match_rate
        /\ \A c \in CandidateEmployers(resp.user) :
              \/ \E r \in RowsOf(resp) : r.company = c
              \/ Len(resp.rows) = resp.limit

\* An employer was returned whose skill-sharing employees hold four skills,
\* one of them the requester's.
C27_Witness ==
    /\ resp.op = "jobs"
    /\ \E r \in RowsOf(resp) :
          /\ Cardinality(EmployerSkills(resp.user, r.company)) = MaxJobSkills
          /\ Cardinality(r.required_skills) = 1

\* ------------------------------------------------------------------ C28
\* C28: in every people suggestion, connection_path_length is absent or at
\* least 2; mutual_connections > 0 exactly when it is 2; and it is absent
\* exactly when no chain of KNOWS relationships joins requester and candidate.
C28_PathLengthOfSuggestion ==
    resp.op = "people" =>
        \A r \in RowsOf(resp) :
            /\ r.connection_path_length = Null \/ r.connection_path_length[1] >= 2
            /\ r.mutual_connections > 0 <=> r.connection_path_length = Some(2)
            /\ r.connection_path_length = Null <=> ~Joined(resp.user, r.user_id)

\* One list suggests a candidate three relationships away, without a mutual
\* connection, and one two away.
C28_Witness ==
    /\ resp.op = "people"
    /\ \E r \in RowsOf(resp) :
          r.connection_path_length = Some(3) /\ r.mutual_connections = 0
    /\ \E r \in RowsOf(resp) :
          r.connection_path_length = Some(2) /\ r.mutual_connections > 0

\* ------------------------------------------------------------------ C29
\* C29: on every graph and for every requester, each candidate of a friend
\* list that the limit did not cut is in every people list that the limit
\* did not cut, with the same mutual_connections and with common_skills
\* equal to the number of the friend recommendation's common skills.
C29_FriendsAmongPeople ==
    (resp.op = "friends" /\ Len(resp.rows) < resp.limit) =>
        \A f \in RowsOf(resp) :
            \A list \in PeopleLists(resp.user, resp.limit) :
                Len(list) < resp.limit =>
                    \E i \in DOMAIN list :
                        /\ list[i].user_id = f.user_id
                        /\ list[i].mutual_connections = f.mutual_connections
                        /\ list[i].common_skills = Cardinality(f.common_skills)

\* A friend list with two candidates, one sharing two skills with the
\* requester and one sharing one.
C29_Witness ==
    /\ resp.op = "friends"
    /\ Len(resp.rows) < resp.limit
    /\ \E f \in RowsOf(resp) : Cardinality(f.common_skills) = 2
    /\ \E f \in RowsOf(resp) :
          f.mutual_connections = 1 /\ Cardinality(f.common_skills) = 1

====
